---- MODULE Spec2Model ----
(***************************************************************************)
(* Layer-wise relevance propagation engine (captum LRP).                   *)
(*                                                                         *)
(* The model follows captum/attr/_core/layer_wise_relevance_propagation.py *)
(* : a module tree is flattened into a layer list, hooks are registered on *)
(* the layers of a deep copy of the model, a gradient pass runs, and the   *)
(* hooks are removed again.  Tensors are abstracted to what the engine     *)
(* itself decides: which hooks sit on which layer, which layer carries a   *)
(* `relevance` attribute, which weights were manipulated, which inputs     *)
(* track gradients, and what structure the returned value has.             *)
(***************************************************************************)
EXTENDS Integers, Sequences, FiniteSets, TLC

\* ---------------------------------------------------------------- bounds
\* Largest number of nodes (root included) of a module tree.
MaxNodes == 3
\* Largest number of attribute calls started on one engine.
MaxCalls == 2

\* The engines that may exist side by side.  Object "model" is the caller's
\* model, object e the latest working copy made by engine e.
Engines == {"lrp", "lrp2"}
Original == "model"

\* ------------------------------------------------------------ layer kinds
\* torch.nn module classes the source names, one container class and one
\* leaf class ("Dropout") that the source names nowhere.
ContainerKind == "Sequential"
AllKinds ==
  {"Conv2d", "Linear", "MaxPool2d", "AvgPool2d", "AdaptiveAvgPool2d",
   "BatchNorm2d", "ReLU", "Sigmoid", "Tanh", "Dropout", ContainerKind}

\* The classes the bounded module trees are built from: one class per
\* branch of the dispatch in _register_forward_hooks and of the check in
\* _get_layers.
LeafKinds == {"Linear", "MaxPool2d", "ReLU", "Tanh", "Dropout"}

\* The class a caller writes for the root of a model whose forward takes
\* two positional arguments: forward(x, y) with two tensors, or
\* forward(x, scale) with a tensor and an additional argument.  Every other
\* module takes one tensor.
TwoArgumentKind == "TwoArgumentModule"

\* SUPPORTED_LINEAR_LAYERS: module class -> rule class.
SUPPORTED_LINEAR_LAYERS ==
  [k \in {"MaxPool2d", "Conv2d", "AvgPool2d", "AdaptiveAvgPool2d", "Linear",
          "BatchNorm2d"} |->
     IF k \in {"Conv2d", "Linear"} THEN "Alpha1_Beta0_Rule" ELSE "EpsilonRule"]

SUPPORTED_NON_LINEAR_LAYERS == {"ReLU"}

\* isinstance(layer, (nn.Sigmoid, nn.Tanh))
IsForbiddenActivation(kind) == kind \in {"Sigmoid", "Tanh"}

\* ------------------------------------------------------------ rule classes
\* Objects a caller may put into `rules`: instances of the rule classes the
\* module imports, None, and an object that is no rule at all.
RuleObjects == {"Alpha1_Beta0_Rule", "EpsilonRule", "None", "str"}

\* A mutation of IsPropagationRule: every object passes for a rule.
IsPropagationRuleAny(cls) == TRUE

\* isinstance(rule, PropagationRule)
IsPropagationRule(cls) == cls \in {"Alpha1_Beta0_Rule", "EpsilonRule", "GammaRule"}

\* isinstance(rule, PropagationRule_ManipulateModules): the alpha-beta rule
\* manipulates weights, the epsilon rule does not.
IsManipulateModules(cls) == cls = "Alpha1_Beta0_Rule"

\* ------------------------------------------------------------ module trees
\* A module is [kind, children]; only a container has children.
Leaf(k) == [kind |-> k, children |-> <<>>]

RECURSIVE TreesOfSize(_), ForestsOfSize(_)
\* All module trees with exactly n nodes.
TreesOfSize(n) ==
  IF n <= 0 THEN {}
  ELSE IF n = 1 THEN {Leaf(k) : k \in LeafKinds \cup {ContainerKind}}
  ELSE {[kind |-> ContainerKind, children |-> f] : f \in ForestsOfSize(n - 1)}
\* All non-empty sequences of module trees with exactly n nodes in total.
ForestsOfSize(n) ==
  IF n <= 0 THEN {}
  ELSE {<<t>> : t \in TreesOfSize(n)}
       \cup UNION {{<<t>> \o f : t \in TreesOfSize(k), f \in ForestsOfSize(n - k)}
                   : k \in 1..(n - 1)}

\* Models with a root of the caller's own class: two layers below a root
\* whose forward takes two arguments.
CustomModels ==
  {[kind |-> TwoArgumentKind, children |-> <<Leaf("Linear"), Leaf("ReLU")>>],
   [kind |-> TwoArgumentKind, children |-> <<Leaf("Dropout"), Leaf("MaxPool2d")>>]}

\* The module trees a caller may pass: every tree of torch's own classes up
\* to the bound, and the models with a root of the caller's own class.
Models == UNION {TreesOfSize(n) : n \in 1..MaxNodes} \cup CustomModels

\* _run_forward(model, inputs, target, additional_forward_args) calls
\* model(*inputs, *additional_forward_args): the additional argument is
\* passed in order after the tensors, and the call binds when forward takes
\* as many positional arguments as are passed; otherwise Python raises
\* TypeError before any layer runs.
RunForwardBinds(tree, tensors, additional) ==
  tensors + (IF additional THEN 1 ELSE 0)
    = (IF tree.kind = TwoArgumentKind THEN 2 ELSE 1)

RECURSIVE NodeAt(_, _)
\* The module at a path of child positions below `tree`.
NodeAt(tree, path) ==
  IF path = <<>> THEN tree
  ELSE NodeAt(tree.children[Head(path)], Tail(path))

RECURSIVE PathsBelow(_, _)
\* The paths of all modules of the tree rooted at `node`, which sits at `path`.
PathsBelow(node, path) ==
  {path} \cup UNION {PathsBelow(node.children[i], Append(path, i))
                     : i \in 1..Len(node.children)}

AllPaths(tree) == PathsBelow(tree, <<>>)

\* ------------------------------------------------------------- _get_layers
RECURSIVE GetLayersFrom(_, _, _, _)
\* The loop `for layer in model.children()` from child i on.  acc.layers is
\* self.layers, acc.raised says that the TypeError was raised.
GetLayersFrom(node, path, i, acc) ==
  IF acc.raised \/ i > Len(node.children) THEN acc
  ELSE LET layer == node.children[i]
           p == Append(path, i)
       IN IF layer.children = <<>>
          THEN IF IsForbiddenActivation(layer.kind)
               THEN [acc EXCEPT !.raised = TRUE]
               ELSE GetLayersFrom(node, path, i + 1,
                                  [acc EXCEPT !.layers = Append(@, p)])
          ELSE GetLayersFrom(node, path, i + 1, GetLayersFrom(layer, p, 1, acc))

\* self.layers = []; self._get_layers(model)
GetLayers(tree) ==
  GetLayersFrom(tree, <<>>, 1, [layers |-> <<>>, raised |-> FALSE])

\* ------------------------------------------------------------ _check_rules
RECURSIVE CheckRulesFrom(_, _, _)
\* The loop over self.rules from position i on; acc.changes_weights is
\* self.changes_weights.
CheckRulesFrom(rs, i, acc) ==
  IF acc.raised \/ i > Len(rs) THEN acc
  ELSE IF ~IsPropagationRule(rs[i]) /\ rs[i] # "None"
       THEN [acc EXCEPT !.raised = TRUE]
       ELSE CheckRulesFrom(rs, i + 1,
              [acc EXCEPT !.changes_weights = @ \/ IsManipulateModules(rs[i])])

CheckRules(rs) ==
  CheckRulesFrom(rs, 1, [changes_weights |-> FALSE, raised |-> FALSE])

\* ------------------------------------------------------------------ state
VARIABLES
  model,                  \* the module tree the caller owns
  heap,                   \* heap[o][path]: mutable state of the layers of object o
  pc,                     \* pc[e]: where engine e stands
  modelRef,               \* self.model: the object the engine works on
  layers,                 \* self.layers: paths of the traversed leaf layers
  rules,                  \* self.rules
  changes_weights,        \* self.changes_weights
  return_for_all_layers,  \* self.return_for_all_layers
  forward_handles,        \* self.forward_handles
  backward_handles,       \* self.backward_handles
  call,                   \* arguments and locals of the running attribute call
  inputs,                 \* the caller's input tensors: requires_grad flags
  inputRef,               \* inputRef[e]: whose tensors the call of e was given
  outcome,                \* what the last constructor or attribute call produced
  warned,                 \* layers the running call printed a warning for
  calls,                  \* attribute calls started so far
  layer,                  \* self.layer of a LayerLRP: the designated layer
  rule_handles,           \* the handles Rule instances hold themselves
  ran                     \* a forward or gradient pass has been started

vars == <<model, heap, pc, modelRef, layers, rules, changes_weights,
          return_for_all_layers, forward_handles, backward_handles, call,
          inputs, inputRef, outcome, warned, calls, layer, rule_handles, ran>>

Objects == {Original} \cup Engines

\* A layer as a deep copy or the constructor sees it first: no hook, no
\* `relevance` attribute, the trained weights.
FreshLayer == [hooks |-> {}, relevance |-> "none", weights |-> "original"]

FreshObject(tree) == [p \in AllPaths(tree) |-> FreshLayer]

\* A Rule instance: its class, the loop that constructed it ("user" for an
\* element of `rules`) and the position in that loop.
RuleInstance(cls, origin, pos) == [cls |-> cls, origin |-> origin, pos |-> pos]
Unbound == RuleInstance("unbound", "unbound", 0)

\* A hook on a layer: the bound method, the Rule instance it is bound to, and
\* whether the running call registered it or a deep copy brought it along.
Hook(kind, rule) == [kind |-> kind, rule |-> rule, call |-> "current"]

\* A removable handle: the layer it was registered on and the hook.
Handle(p, h) == [layer |-> p, hook |-> h]

\* No designated layer: the engine is a plain LRP.
NoLayer == [set |-> FALSE, path |-> <<>>]

\* What a pass through an object depends on: the hooks that fire on each
\* layer and the weights it computes with.
PassView(obj) ==
  [p \in DOMAIN obj |-> [hooks |-> obj[p].hooks, weights |-> obj[p].weights]]
NoView == <<>>

\* Python values handed back to the caller: a tensor (named by the relevance
\* it holds), a list or a tuple of values.
NoEntry == [src |-> "none", idx |-> 0, age |-> "none"]
Tensor(entry) == [form |-> "tensor", entry |-> entry, items |-> <<>>]
ListOf(vals) == [form |-> "list", entry |-> NoEntry, items |-> vals]
TupleOf(vals) == [form |-> "tuple", entry |-> NoEntry, items |-> vals]
NoValue == [form |-> "none", entry |-> NoEntry, items |-> <<>>]

\* The convergence delta: the shape of the tensor (a 0-dim scalar or one
\* element per example), the examples whose forward output goes into each
\* element, and the elements of `relevances` that are summed and subtracted.
NoDelta == [shape |-> "none", output_of |-> "none", relevances_summed |-> {}]

NoCall ==
  [is_inputs_tuple |-> FALSE, return_convergence_delta |-> FALSE,
   additional_forward_args |-> FALSE, gradient_mask |-> <<>>,
   output_view |-> NoView, gradient_view |-> NoView,
   relevances |-> [wrapped |-> FALSE, items |-> <<>>]]
NoInputs == [is_tuple |-> FALSE, requires_grad |-> <<>>, before |-> <<>>,
             batch |-> "none", broadcasts |-> FALSE]
NoOutcome == [status |-> "none", error |-> "none", with_delta |-> FALSE,
              is_tuple |-> FALSE, value |-> [wrapped |-> FALSE, items |-> <<>>],
              attributions |-> NoValue, delta |-> NoDelta,
              output_view |-> NoView, gradient_view |-> NoView]
Raised(err) == [NoOutcome EXCEPT !.status = "raised", !.error = err]

\* The `rules` arguments a caller may pass: none, one rule per layer of a
\* two-layer model as in the docstring, and two lists holding an object
\* that is no rule, one of them behind a rule of the other class.
RuleLists ==
  {<<>>,
   <<"Alpha1_Beta0_Rule", "None">>,
   <<"str">>,
   <<"EpsilonRule", "str">>}

\* The `inputs` arguments a caller may pass: one tensor, or a tuple of
\* tensors, each tracking gradients or not.  `broadcasts` says whether the
\* shape of the inputs can be multiplied with the shape of the forward
\* output: it can for a batch of one example, e.g. (1, 3) by (1,), and for
\* (2, 2) by (2,); it cannot for (2, 3) by (2,) nor for the docstring's
\* (3, 3, 32, 32) by (3,).
InputArgs ==
  {[is_tuple |-> FALSE, requires_grad |-> <<FALSE>>, batch |-> "one",
    broadcasts |-> TRUE],
   [is_tuple |-> FALSE, requires_grad |-> <<TRUE>>, batch |-> "many",
    broadcasts |-> FALSE],
   [is_tuple |-> FALSE, requires_grad |-> <<FALSE>>, batch |-> "many",
    broadcasts |-> TRUE],
   [is_tuple |-> TRUE, requires_grad |-> <<FALSE, TRUE>>, batch |-> "many",
    broadcasts |-> TRUE]}

Init ==
  /\ model \in Models
  /\ heap = [o \in Objects |-> FreshObject(model)]
  /\ pc = [e \in Engines |-> "new"]
  /\ modelRef = [e \in Engines |-> Original]
  /\ layers = [e \in Engines |-> <<>>]
  /\ rules = [e \in Engines |-> <<>>]
  /\ changes_weights = [e \in Engines |-> FALSE]
  /\ return_for_all_layers = [e \in Engines |-> FALSE]
  /\ forward_handles = [e \in Engines |-> <<>>]
  /\ backward_handles = [e \in Engines |-> <<>>]
  /\ call = [e \in Engines |-> NoCall]
  /\ inputs = [e \in Engines |-> NoInputs]
  /\ inputRef = [e \in Engines |-> e]
  /\ outcome = [e \in Engines |-> NoOutcome]
  /\ warned = [e \in Engines |-> <<>>]
  /\ calls = [e \in Engines |-> 0]
  /\ layer = [e \in Engines |-> NoLayer]
  /\ rule_handles = [e \in Engines |-> {}]
  /\ ran = [e \in Engines |-> FALSE]

\* ---------------------------------------------------------------- __init__
\* LRP(model, rules): traverse the caller's model, then check the rules.
Construct(e) ==
  /\ pc[e] = "new"
  /\ \E rs \in RuleLists :
       LET g == GetLayers(model)
           c == CheckRules(rs)
       IN /\ modelRef' = [modelRef EXCEPT ![e] = Original]
          /\ layers' = [layers EXCEPT ![e] = g.layers]
          /\ IF g.raised
             THEN /\ pc' = [pc EXCEPT ![e] = "failed"]
                  /\ outcome' = [outcome EXCEPT ![e] = Raised("TypeError")]
                  /\ UNCHANGED <<rules, changes_weights>>
             ELSE /\ rules' = [rules EXCEPT ![e] = rs]
                  /\ changes_weights' = [changes_weights EXCEPT ![e] = c.changes_weights]
                  /\ IF c.raised
                     THEN /\ pc' = [pc EXCEPT ![e] = "failed"]
                          /\ outcome' = [outcome EXCEPT ![e] = Raised("TypeError")]
                     ELSE /\ pc' = [pc EXCEPT ![e] = "idle"]
                          /\ UNCHANGED outcome
  /\ UNCHANGED <<model, inputRef, layer, rule_handles, heap, return_for_all_layers, forward_handles,
                 backward_handles, call, inputs, warned, calls, ran>>

\* LayerLRP(model, layer): LayerAttribution.__init__ keeps the designated
\* layer, then LRP.__init__(self, model) is called without its `rules`
\* argument and raises TypeError before any attribute of LRP is set.
ConstructLayerLRP(e) ==
  /\ pc[e] = "new"
  /\ \E p \in AllPaths(model) :
       layer' = [layer EXCEPT ![e] = [set |-> TRUE, path |-> p]]
  /\ pc' = [pc EXCEPT ![e] = "failed"]
  /\ outcome' = [outcome EXCEPT ![e] = Raised("TypeError")]
  /\ UNCHANGED <<model, inputRef, rule_handles, heap, modelRef, layers, rules,
                 changes_weights, return_for_all_layers, forward_handles,
                 backward_handles, call, inputs, warned, calls, ran>>

\* ------------------------------------------------------- attribute: set-up
\* copy.deepcopy(module): every layer is copied with its hooks, its
\* attributes and its current weights.  The hooks and the `relevance`
\* attribute the copy carries stem from earlier calls.
DeepCopy(obj) ==
  [p \in DOMAIN obj |->
     [hooks |-> {[h EXCEPT !.call = "earlier"] : h \in obj[p].hooks},
      relevance |-> IF obj[p].relevance = "none" THEN "none" ELSE "stale",
      weights |-> obj[p].weights]]

\* A mutation of CopiedRef: no copy is made, self.model stays what it was.
CopiedRefAlias(e) == modelRef[e]

\* The object `self.model = copy.deepcopy(self.model)` makes self.model name.
CopiedRef(e) == e

\* The tensors the call of engine e was given.
Given(e) == inputs[inputRef[e]]

\* The `inputs` a call of engine e may be given: tensors no other call
\* holds, or the very tensors the caller has given to the call of another
\* engine, with the flags they have by now.
GivenInputs(e) ==
  {[ref |-> e,
    val |-> [is_tuple |-> a.is_tuple, requires_grad |-> a.requires_grad,
             before |-> a.requires_grad, batch |-> a.batch,
             broadcasts |-> a.broadcasts]] :
     a \in {b \in InputArgs : \A o \in Engines \ {e} : inputRef[o] # e}}
  \cup {[ref |-> o, val |-> inputs[o]] :
          o \in {r \in Engines \ {e} : inputRef[r] = r /\ inputs[r] # NoInputs}}

\* Lines 165-175: the deep copy, the fresh traversal, the reset handle lists.
Begin(e) ==
  /\ pc[e] = "idle"
  /\ calls[e] < MaxCalls
  /\ \E rfal \in BOOLEAN, delta \in BOOLEAN, additional \in BOOLEAN,
        given \in GivenInputs(e) :
       LET o == CopiedRef(e)
           g == GetLayers(model)
       IN /\ changes_weights' = [changes_weights EXCEPT ![e] = TRUE]
          /\ heap' = [heap EXCEPT ![o] = DeepCopy(heap[modelRef[e]])]
          /\ modelRef' = [modelRef EXCEPT ![e] = o]
          /\ layers' = [layers EXCEPT ![e] = g.layers]
          /\ IF g.raised
             THEN /\ pc' = [pc EXCEPT ![e] = "idle"]
                  /\ outcome' = [outcome EXCEPT ![e] = Raised("TypeError")]
                  /\ UNCHANGED <<return_for_all_layers, forward_handles,
                                 backward_handles, call, inputs, inputRef>>
             ELSE /\ pc' = [pc EXCEPT ![e] = "copied"]
                  /\ outcome' = [outcome EXCEPT ![e] = NoOutcome]
                  /\ return_for_all_layers' =
                       [return_for_all_layers EXCEPT ![e] = rfal]
                  /\ forward_handles' = [forward_handles EXCEPT ![e] = <<>>]
                  /\ backward_handles' = [backward_handles EXCEPT ![e] = <<>>]
                  /\ call' = [call EXCEPT ![e] =
                       [NoCall EXCEPT !.return_convergence_delta = delta,
                                      !.additional_forward_args = additional]]
                  /\ inputs' = [inputs EXCEPT ![given.ref] = given.val]
                  /\ inputRef' = [inputRef EXCEPT ![e] = given.ref]
  /\ calls' = [calls EXCEPT ![e] = @ + 1]
  /\ warned' = [warned EXCEPT ![e] = <<>>]
  /\ UNCHANGED <<model, layer, rule_handles, rules, ran>>

\* ------------------------------------------------------------------ passes
\* A forward pass through the object: a forward_hook_weights hook manipulates
\* the weights of its layer.
ForwardPass(obj) ==
  [p \in DOMAIN obj |->
     IF \E h \in obj[p].hooks : h.kind = "forward_hook_weights"
     THEN [obj[p] EXCEPT !.weights = "manipulated"]
     ELSE obj[p]]

\* A backward pass through the object: a _backward_hook_relevance hook
\* attaches the relevance to its layer.
BackwardPass(obj) ==
  [p \in DOMAIN obj |->
     IF \E h \in obj[p].hooks : h.kind = "_backward_hook_relevance"
     THEN [obj[p] EXCEPT !.relevance = "fresh"]
     ELSE obj[p]]

\* The handles the rules take for themselves while a forward pass runs
\* through the object: a rule whose forward_hook fires registers hooks on
\* the layer's input and output tensors and keeps their handles.
RuleHandlesCreated(obj) ==
  {[rule |-> h.rule, name |-> n] :
     h \in {g \in UNION {obj[p].hooks : p \in DOMAIN obj} : g.kind = "forward_hook"},
     n \in {"_handle_input_hook", "_handle_output_hook"}}

\* An exception leaves attribute: the frame is gone, the engine's attributes
\* and the objects stay as they are.
RaiseFrom(e, err) ==
  /\ pc' = [pc EXCEPT ![e] = "idle"]
  /\ outcome' = [outcome EXCEPT ![e] = Raised(err)]
  /\ call' = [call EXCEPT ![e] = NoCall]

\* apply_gradient_requirements(inputs): the mask remembers which inputs
\* tracked gradients; afterwards all of them do.
ApplyGradientRequirements(flags) ==
  [mask |-> flags, flags |-> [i \in DOMAIN flags |-> TRUE]]

\* undo_gradient_requirements(inputs, mask): inputs that did not track
\* gradients stop tracking them again.
UndoGradientRequirements(flags, mask) ==
  [i \in DOMAIN flags |-> IF mask[i] THEN flags[i] ELSE FALSE]

\* Lines 177-180: the plain forward pass and the gradient requirements.
\* The pass raises TypeError when the call of the model does not bind;
\* when it runs, the hooks the copy carries fire.
Forward(e) ==
  /\ pc[e] = "copied"
  /\ ran' = [ran EXCEPT ![e] = TRUE]
  /\ IF RunForwardBinds(model, Len(Given(e).requires_grad),
                        call[e].additional_forward_args)
     THEN LET g == ApplyGradientRequirements(Given(e).requires_grad)
          IN /\ heap' = [heap EXCEPT ![modelRef[e]] = ForwardPass(@)]
             /\ rule_handles' = [rule_handles EXCEPT ![e] =
                  @ \cup RuleHandlesCreated(heap[modelRef[e]])]
             /\ call' = [call EXCEPT
                  ![e].is_inputs_tuple = Given(e).is_tuple,
                  ![e].output_view = PassView(heap[modelRef[e]]),
                  ![e].gradient_mask = g.mask]
             /\ inputs' = [inputs EXCEPT ![inputRef[e]].requires_grad = g.flags]
             /\ pc' = [pc EXCEPT ![e] = "prepared"]
             /\ UNCHANGED outcome
     ELSE /\ RaiseFrom(e, "TypeError")
          /\ UNCHANGED <<heap, rule_handles, inputs>>
  /\ UNCHANGED <<model, inputRef, layer, modelRef, layers, rules, changes_weights,
                 return_for_all_layers, forward_handles, backward_handles,
                 warned, calls>>

\* --------------------------------------------------------- hook registration
KindAt(tree, p) == NodeAt(tree, p).kind

\* layer.register_*_hook(h) on the layer at path p of object obj.
AddHook(obj, p, h) == [obj EXCEPT ![p].hooks = @ \cup {h}]

\* A mutation of RemoveHandles: the weight hooks are left in place.
RemoveHandlesButWeightHooks(obj, handles) ==
  [p \in DOMAIN obj |->
     [obj[p] EXCEPT !.hooks =
        @ \ {handles[j].hook : j \in {k \in DOMAIN handles :
                                        /\ handles[k].layer = p
                                        /\ handles[k].hook.kind # "forward_hook_weights"}}]]

\* A mutation of RemoveHandles: the handles are left in place.
RemoveHandlesNot(obj, handles) == obj

\* handle.remove() for every handle of a list.
RemoveHandles(obj, handles) ==
  [p \in DOMAIN obj |->
     [obj[p] EXCEPT !.hooks =
        @ \ {handles[j].hook : j \in {k \in DOMAIN handles : handles[k].layer = p}}]]

RECURSIVE RegisterManipulationHooksFrom(_, _, _, _, _, _)
\* The loop shared by _register_weight_hooks (method "forward_hook_weights")
\* and _register_pre_hooks (method "forward_pre_hook_activations"), from
\* layer i on: a fresh rule per supported layer, a hook if the rule
\* manipulates modules.
RegisterManipulationHooksFrom(tree, ls, method, origin, i, acc) ==
  IF i > Len(ls) THEN acc
  ELSE LET p == ls[i]
           k == KindAt(tree, p)
       IN IF k \in DOMAIN SUPPORTED_LINEAR_LAYERS
          THEN LET rule == RuleInstance(SUPPORTED_LINEAR_LAYERS[k], origin, i)
                   h == Hook(method, rule)
               IN IF IsManipulateModules(rule.cls)
                  THEN RegisterManipulationHooksFrom(tree, ls, method, origin, i + 1,
                         [obj |-> AddHook(acc.obj, p, h),
                          forward_handles |-> Append(acc.forward_handles, Handle(p, h))])
                  ELSE RegisterManipulationHooksFrom(tree, ls, method, origin, i + 1, acc)
          ELSE RegisterManipulationHooksFrom(tree, ls, method, origin, i + 1, acc)

RegisterWeightHooksOn(tree, ls, obj, fh) ==
  RegisterManipulationHooksFrom(tree, ls, "forward_hook_weights", "weights", 1,
                                [obj |-> obj, forward_handles |-> fh])

RegisterPreHooksOn(tree, ls, obj, fh) ==
  RegisterManipulationHooksFrom(tree, ls, "forward_pre_hook_activations", "pre", 1,
                                [obj |-> obj, forward_handles |-> fh])

\* A mutation of NoRuleWarning: the unsupported layer aborts the registration.
NoRuleWarningRaises(acc, p) == [acc EXCEPT !.raised = TRUE]

\* The else branch of _register_forward_hooks: the warning is printed and
\* nothing is registered on the layer.
NoRuleWarning(acc, p) == [acc EXCEPT !.warned = Append(@, p)]

RECURSIVE RegisterForwardHooksFrom(_, _, _, _, _)
\* The loop of _register_forward_hooks from layer i on.  acc.rule is the
\* local variable `rule`: unbound until a supported linear layer was seen,
\* and an activation layer reads it.
RegisterForwardHooksFrom(tree, ls, rfal, i, acc) ==
  IF acc.raised \/ i > Len(ls) THEN acc
  ELSE LET p == ls[i]
           k == KindAt(tree, p)
       IN IF k \in DOMAIN SUPPORTED_LINEAR_LAYERS
          THEN LET rule == RuleInstance(SUPPORTED_LINEAR_LAYERS[k], "main", i)
                   fwd == Hook("forward_hook", rule)
                   rel == Hook("_backward_hook_relevance", rule)
                   a1 == [acc EXCEPT !.rule = rule,
                                     !.obj = AddHook(@, p, fwd),
                                     !.forward_handles = Append(@, Handle(p, fwd))]
                   a2 == IF rfal
                         THEN [a1 EXCEPT !.obj = AddHook(@, p, rel),
                                         !.backward_handles = Append(@, Handle(p, rel))]
                         ELSE a1
               IN RegisterForwardHooksFrom(tree, ls, rfal, i + 1, a2)
          ELSE IF k \in SUPPORTED_NON_LINEAR_LAYERS
          THEN IF acc.rule = Unbound
               THEN [acc EXCEPT !.raised = TRUE]
               ELSE LET act == Hook("backward_hook_activation", acc.rule)
                    IN RegisterForwardHooksFrom(tree, ls, rfal, i + 1,
                         [acc EXCEPT !.obj = AddHook(@, p, act),
                                     !.backward_handles = Append(@, Handle(p, act))])
          ELSE RegisterForwardHooksFrom(tree, ls, rfal, i + 1, NoRuleWarning(acc, p))

RegisterForwardHooksOn(tree, ls, rfal, obj, fh, bh, w) ==
  RegisterForwardHooksFrom(tree, ls, rfal, 1,
    [obj |-> obj, forward_handles |-> fh, backward_handles |-> bh,
     rule |-> Unbound, warned |-> w, raised |-> FALSE])

\* ------------------------------------------------ attribute: _change_weights
\* _change_weights, first statement: `if self.changes_weights` and
\* _register_weight_hooks.
RegisterWeightHooks(e) ==
  /\ pc[e] = "prepared"
  /\ IF changes_weights[e]
     THEN LET r == RegisterWeightHooksOn(model, layers[e], heap[modelRef[e]],
                                         forward_handles[e])
          IN /\ heap' = [heap EXCEPT ![modelRef[e]] = r.obj]
             /\ forward_handles' = [forward_handles EXCEPT ![e] = r.forward_handles]
             /\ pc' = [pc EXCEPT ![e] = "weight_hooks"]
     ELSE /\ pc' = [pc EXCEPT ![e] = "weights_done"]
          /\ UNCHANGED <<heap, forward_handles>>
  /\ UNCHANGED <<model, inputRef, layer, rule_handles, modelRef, layers, rules, changes_weights,
                 return_for_all_layers, backward_handles, call, inputs,
                 outcome, warned, calls, ran>>

\* _change_weights: `_ = _run_forward(self.model, inputs)`.  The target and
\* the additional forward arguments of the call are not passed on: a call
\* that passed an additional argument to the model raises TypeError here,
\* before any layer runs and with the weight hooks registered.
WeightForward(e) ==
  /\ pc[e] = "weight_hooks"
  /\ IF RunForwardBinds(model, Len(Given(e).requires_grad), FALSE)
     THEN /\ heap' = [heap EXCEPT ![modelRef[e]] = ForwardPass(@)]
          /\ rule_handles' = [rule_handles EXCEPT ![e] =
               @ \cup RuleHandlesCreated(heap[modelRef[e]])]
          /\ pc' = [pc EXCEPT ![e] = "weight_forward"]
          /\ UNCHANGED <<call, outcome>>
     ELSE /\ RaiseFrom(e, "TypeError")
          /\ UNCHANGED <<heap, rule_handles>>
  /\ UNCHANGED <<model, inputRef, layer, modelRef, layers, rules, changes_weights,
                 return_for_all_layers, forward_handles, backward_handles,
                 inputs, warned, calls, ran>>

\* _remove_forward_hooks, called from _change_weights and from attribute.
RemoveForwardHooks(e) ==
  /\ pc[e] \in {"weight_forward", "backward_removed"}
  /\ heap' = [heap EXCEPT ![modelRef[e]] = RemoveHandles(@, forward_handles[e])]
  /\ pc' = [pc EXCEPT ![e] = IF pc[e] = "weight_forward"
                             THEN "weight_hooks_removed"
                             ELSE "forward_removed"]
  /\ UNCHANGED <<model, inputRef, layer, rule_handles, modelRef, layers, rules, changes_weights,
                 return_for_all_layers, forward_handles, backward_handles,
                 call, inputs, outcome, warned, calls, ran>>

\* _change_weights, last statement: _register_pre_hooks.
RegisterPreHooks(e) ==
  /\ pc[e] = "weight_hooks_removed"
  /\ LET r == RegisterPreHooksOn(model, layers[e], heap[modelRef[e]],
                                 forward_handles[e])
     IN /\ heap' = [heap EXCEPT ![modelRef[e]] = r.obj]
        /\ forward_handles' = [forward_handles EXCEPT ![e] = r.forward_handles]
  /\ pc' = [pc EXCEPT ![e] = "weights_done"]
  /\ UNCHANGED <<model, inputRef, layer, rule_handles, modelRef, layers, rules, changes_weights,
                 return_for_all_layers, backward_handles, call, inputs,
                 outcome, warned, calls, ran>>

\* ------------------------------------------------- attribute: the main pass
\* _register_forward_hooks; reading the unbound local `rule` raises.
RegisterForwardHooks(e) ==
  /\ pc[e] = "weights_done"
  /\ LET r == RegisterForwardHooksOn(model, layers[e], return_for_all_layers[e],
                                     heap[modelRef[e]], forward_handles[e],
                                     backward_handles[e], warned[e])
     IN /\ heap' = [heap EXCEPT ![modelRef[e]] = r.obj]
        /\ forward_handles' = [forward_handles EXCEPT ![e] = r.forward_handles]
        /\ backward_handles' = [backward_handles EXCEPT ![e] = r.backward_handles]
        /\ warned' = [warned EXCEPT ![e] = r.warned]
        /\ IF r.raised
           THEN RaiseFrom(e, "UnboundLocalError")
           ELSE /\ pc' = [pc EXCEPT ![e] = "hooks_active"]
                /\ UNCHANGED <<call, outcome>>
  /\ UNCHANGED <<model, inputRef, layer, rule_handles, modelRef, layers, rules, changes_weights,
                 return_for_all_layers, inputs, calls, ran>>

\* Lines 185-191: compute_gradients runs a forward and a backward pass, then
\* every gradient is multiplied with its input and with the forward output:
\* one relevance per input tensor.  The product raises RuntimeError when
\* the shapes of input and output do not broadcast.  An input that tracks
\* no gradient any more, because another call has undone the requirement on
\* the same tensor, makes the differentiation raise RuntimeError after the
\* forward pass and before the backward pass.
ComputeGradients(e) ==
  /\ pc[e] = "hooks_active"
  /\ rule_handles' = [rule_handles EXCEPT ![e] =
       @ \cup RuleHandlesCreated(heap[modelRef[e]])]
  /\ IF \E j \in DOMAIN Given(e).requires_grad : ~Given(e).requires_grad[j]
     THEN /\ heap' = [heap EXCEPT ![modelRef[e]] = ForwardPass(@)]
          /\ RaiseFrom(e, "RuntimeError")
     ELSE /\ heap' = [heap EXCEPT ![modelRef[e]] = BackwardPass(ForwardPass(@))]
          /\ IF Given(e).broadcasts
             THEN /\ call' = [call EXCEPT
                       ![e].gradient_view = PassView(heap[modelRef[e]]),
                       ![e].relevances =
                         [wrapped |-> FALSE,
                          items |-> [j \in DOMAIN Given(e).requires_grad |->
                                       [src |-> "input", idx |-> j,
                                        age |-> "fresh"]]]]
                  /\ pc' = [pc EXCEPT ![e] = "gradients"]
                  /\ UNCHANGED outcome
             ELSE RaiseFrom(e, "RuntimeError")
  /\ UNCHANGED <<model, inputRef, layer, modelRef, layers, rules, changes_weights,
                 return_for_all_layers, forward_handles, backward_handles,
                 inputs, warned, calls, ran>>

\* The errors compute_gradients raises once its forward pass has run:
\* AssertionError when no target was given for an output of several
\* elements, RuntimeError when the differentiation fails.
GradientErrors == {"AssertionError", "RuntimeError"}

\* compute_gradients raises: its forward pass has run and the hooks of the
\* layers have fired.  The assertion on the target fails before the
\* backward pass; the differentiation fails before it (an output that
\* tracks no gradient) or after it has run and the backward hooks have
\* fired (an input the output does not depend on).
GradientsFail(e) ==
  /\ pc[e] = "hooks_active"
  /\ \E err \in GradientErrors, backward \in BOOLEAN :
       /\ backward => err = "RuntimeError"
       /\ heap' = [heap EXCEPT ![modelRef[e]] =
            IF backward THEN BackwardPass(ForwardPass(@)) ELSE ForwardPass(@)]
       /\ RaiseFrom(e, err)
  /\ rule_handles' = [rule_handles EXCEPT ![e] =
       @ \cup RuleHandlesCreated(heap[modelRef[e]])]
  /\ UNCHANGED <<model, inputRef, layer, modelRef, layers, rules, changes_weights,
                 return_for_all_layers, forward_handles, backward_handles,
                 inputs, warned, calls, ran>>

\* `for rule in self.rules`: the objects the caller passed as `rules`.
UserRules(rs) == {RuleInstance(rs[i], "user", i) : i \in DOMAIN rs}

\* _remove_backward_hooks: the handles of the engine, then the handles held
\* by the elements of self.rules.
RemoveBackwardHooks(e) ==
  /\ pc[e] = "gradients"
  /\ heap' = [heap EXCEPT ![modelRef[e]] = RemoveHandles(@, backward_handles[e])]
  /\ rule_handles' = [rule_handles EXCEPT ![e] =
       {h \in @ : h.rule \notin UserRules(rules[e])}]
  /\ pc' = [pc EXCEPT ![e] = "backward_removed"]
  /\ UNCHANGED <<model, inputRef, layer, modelRef, layers, rules, changes_weights,
                 return_for_all_layers, forward_handles, backward_handles,
                 call, inputs, outcome, warned, calls, ran>>

\* A mutation of UndoGradients: the call goes on without restoring the
\* inputs.
UndoGradientsSkipped(e) ==
  /\ pc[e] = "forward_removed"
  /\ pc' = [pc EXCEPT ![e] = "undone"]
  /\ UNCHANGED <<model, inputRef, layer, rule_handles, heap, modelRef, layers, rules,
                 changes_weights, return_for_all_layers, forward_handles,
                 backward_handles, call, inputs, outcome, warned, calls, ran>>

\* undo_gradient_requirements(inputs, gradient_mask)
UndoGradients(e) ==
  /\ pc[e] = "forward_removed"
  /\ inputs' = [inputs EXCEPT ![inputRef[e]].requires_grad =
       UndoGradientRequirements(@, call[e].gradient_mask)]
  /\ pc' = [pc EXCEPT ![e] = "undone"]
  /\ UNCHANGED <<model, inputRef, layer, rule_handles, heap, modelRef, layers, rules, changes_weights,
                 return_for_all_layers, forward_handles, backward_handles,
                 call, outcome, warned, calls, ran>>

\* A mutation of SelectFrom: every layer reports the layer after it.
SelectFromNext(obj, ls, i, rel) ==
  rel \o [j \in 1..Len(ls) |->
            IF obj[ls[j]].relevance # "none"
            THEN [src |-> "layer", idx |-> j, age |-> obj[ls[j]].relevance]
            ELSE IF j < Len(ls) /\ obj[ls[j + 1]].relevance # "none"
            THEN [src |-> "layer", idx |-> j + 1, age |-> obj[ls[j + 1]].relevance]
            ELSE rel[Len(rel)]]

RECURSIVE SelectFrom(_, _, _, _)
\* The loop of _select_layer_output from layer i on: the layer's own
\* relevance if it has one, else the last entry once more.
SelectFrom(obj, ls, i, rel) ==
  IF i > Len(ls) THEN rel
  ELSE SelectFrom(obj, ls, i + 1,
         Append(rel,
                IF obj[ls[i]].relevance # "none"
                THEN [src |-> "layer", idx |-> i, age |-> obj[ls[i]].relevance]
                ELSE rel[Len(rel)]))

\* A mutation of SelectLayerOutput: the list is built and wrapped whatever
\* return_for_all_layers says.
SelectLayerOutputAlways(obj, ls, rfal, relevances) ==
  [wrapped |-> TRUE, items |-> SelectFrom(obj, ls, 1, relevances.items)]

\* _select_layer_output(relevances)
SelectLayerOutput(obj, ls, rfal, relevances) ==
  IF rfal
  THEN [wrapped |-> TRUE, items |-> SelectFrom(obj, ls, 1, relevances.items)]
  ELSE relevances

Select(e) ==
  /\ pc[e] = "undone"
  /\ call' = [call EXCEPT ![e].relevances =
       SelectLayerOutput(heap[modelRef[e]], layers[e],
                         return_for_all_layers[e], @)]
  /\ pc' = [pc EXCEPT ![e] = "selected"]
  /\ UNCHANGED <<model, inputRef, layer, rule_handles, heap, modelRef, layers, rules, changes_weights,
                 return_for_all_layers, forward_handles, backward_handles,
                 inputs, outcome, warned, calls, ran>>

\* The Python tuple `relevances` after _select_layer_output: the tuple of
\* input relevances, or the one-element tuple that holds the list.
RelevancesTuple(rel) ==
  IF rel.wrapped
  THEN <<ListOf([j \in DOMAIN rel.items |-> Tensor(rel.items[j])])>>
  ELSE [j \in DOMAIN rel.items |-> Tensor(rel.items[j])]

\* _format_attributions(is_inputs_tuple, attributions): the tuple itself for
\* tuple inputs, its first element otherwise.
FormatAttributions(is_inputs_tuple, attributions) ==
  IF is_inputs_tuple THEN TupleOf(attributions) ELSE attributions[1]

\* compute_convergence_delta(attributions, ...): torch.sum(relevance) -
\* torch.sum(attributions).  torch.sum takes a tensor: a list raises
\* TypeError.  Both sums run over every dimension, the batch included.
ComputeConvergenceDelta(attributions) ==
  IF attributions.form = "tensor"
  THEN [raised |-> FALSE,
        delta |-> [shape |-> "scalar", output_of |-> "whole batch",
                   relevances_summed |-> {1}]]
  ELSE [raised |-> TRUE, delta |-> NoDelta]

\* Lines 199-205: the convergence delta needs one more forward pass; the
\* attributions go back to the caller.
Return(e) ==
  /\ pc[e] = "selected"
  /\ LET rel == RelevancesTuple(call[e].relevances)
         d == ComputeConvergenceDelta(rel[1])
     IN IF call[e].return_convergence_delta
        THEN /\ heap' = [heap EXCEPT ![modelRef[e]] = ForwardPass(@)]
             /\ rule_handles' = [rule_handles EXCEPT ![e] =
                  @ \cup RuleHandlesCreated(heap[modelRef[e]])]
             /\ IF d.raised
                THEN RaiseFrom(e, "TypeError")
                ELSE /\ outcome' = [outcome EXCEPT ![e] =
                          [status |-> "returned", error |-> "none",
                           with_delta |-> TRUE,
                           is_tuple |-> call[e].is_inputs_tuple,
                           value |-> call[e].relevances,
                           attributions |->
                             FormatAttributions(call[e].is_inputs_tuple, rel),
                           delta |-> d.delta,
                           output_view |-> call[e].output_view,
                           gradient_view |-> call[e].gradient_view]]
                     /\ call' = [call EXCEPT ![e] = NoCall]
                     /\ pc' = [pc EXCEPT ![e] = "idle"]
        ELSE /\ UNCHANGED <<heap, rule_handles>>
             /\ outcome' = [outcome EXCEPT ![e] =
                  [status |-> "returned", error |-> "none",
                   with_delta |-> FALSE,
                   is_tuple |-> call[e].is_inputs_tuple,
                   value |-> call[e].relevances,
                   attributions |->
                     FormatAttributions(call[e].is_inputs_tuple, rel),
                   delta |-> NoDelta,
                   output_view |-> call[e].output_view,
                   gradient_view |-> call[e].gradient_view]]
             /\ call' = [call EXCEPT ![e] = NoCall]
             /\ pc' = [pc EXCEPT ![e] = "idle"]
  /\ UNCHANGED <<model, inputRef, layer, modelRef, layers, rules, changes_weights,
                 return_for_all_layers, forward_handles, backward_handles,
                 inputs, warned, calls, ran>>

\* Lines 210-282: the caller calls compute_convergence_delta itself, on an
\* engine that runs no attribute call.  Line 281 runs a forward pass through
\* self.model, the caller's model before the first attribute call and the
\* copy of the last call afterwards, and the hooks left on it fire.  The
\* pass raises TypeError when the call of the model does not bind.  The
\* difference of line 282, or the TypeError of torch.sum for attributions
\* that are no tensor, goes to the caller and leaves nothing on the engine.
ComputeConvergenceDeltaCall(e) ==
  /\ pc[e] = "idle"
  /\ ran' = [ran EXCEPT ![e] = TRUE]
  /\ \E binds \in {RunForwardBinds(model, tensors, additional) :
                      tensors \in 1..2, additional \in BOOLEAN} :
       IF binds
       THEN /\ heap' = [heap EXCEPT ![modelRef[e]] = ForwardPass(@)]
            /\ rule_handles' = [rule_handles EXCEPT ![e] =
                 @ \cup RuleHandlesCreated(heap[modelRef[e]])]
       ELSE UNCHANGED <<heap, rule_handles>>
  /\ UNCHANGED <<model, inputRef, layer, modelRef, layers, rules, changes_weights,
                 return_for_all_layers, forward_handles, backward_handles,
                 call, inputs, outcome, warned, calls, pc>>

\* ------------------------------------------------------------ specification
\* One engine over the caller's model.
Solo == "lrp"

Next ==
  \/ Construct(Solo)
  \/ ConstructLayerLRP(Solo)
  \/ Begin(Solo)
  \/ Forward(Solo)
  \/ RegisterWeightHooks(Solo)
  \/ WeightForward(Solo)
  \/ RemoveForwardHooks(Solo)
  \/ RegisterPreHooks(Solo)
  \/ RegisterForwardHooks(Solo)
  \/ ComputeGradients(Solo)
  \/ GradientsFail(Solo)
  \/ RemoveBackwardHooks(Solo)
  \/ UndoGradients(Solo)
  \/ Select(Solo)
  \/ Return(Solo)
  \/ ComputeConvergenceDeltaCall(Solo)

Spec == Init /\ [][Next]_vars

\* Two engines over the same original model, each constructed once and
\* serving one attribute call; their steps interleave in any order, and the
\* caller may give both calls the same tensors.
PairModels ==
  {[kind |-> ContainerKind, children |-> <<Leaf("Linear"), Leaf("ReLU")>>],
   [kind |-> ContainerKind, children |-> <<Leaf("Dropout"), Leaf("MaxPool2d")>>]}

InitPair == Init /\ model \in PairModels

\* The engine's first attribute call.
BeginFirst(e) == calls[e] = 0 /\ Begin(e)

StepOf(e) ==
  \/ Construct(e)
  \/ BeginFirst(e)
  \/ Forward(e)
  \/ RegisterWeightHooks(e)
  \/ WeightForward(e)
  \/ RemoveForwardHooks(e)
  \/ RegisterPreHooks(e)
  \/ RegisterForwardHooks(e)
  \/ ComputeGradients(e)
  \/ GradientsFail(e)
  \/ RemoveBackwardHooks(e)
  \/ UndoGradients(e)
  \/ Select(e)
  \/ Return(e)
  \/ ComputeConvergenceDeltaCall(e)

NextPair == \E e \in Engines : StepOf(e)

SpecPair == InitPair /\ [][NextPair]_vars

\* ---------------------------------------------------------------- helpers
\* The hooks the running (or last) call of engine e registered and that are
\* still on the layer at path p of its working model.
OwnHooks(e, p) == {h \in heap[modelRef[e]][p].hooks : h.call = "current"}

\* The engine's last attribute call has returned, or raised, and no new call
\* has begun.
Returned(e) == pc[e] = "idle" /\ outcome[e].status = "returned"
RaisedInCall(e) == pc[e] = "idle" /\ outcome[e].status = "raised"

\* The call registered at least one hook before it ended.
InstalledHooks(e) == forward_handles[e] # <<>> \/ backward_handles[e] # <<>>

\* C1: when attribute returns normally, none of the hooks this call
\* registered (weight, pre-forward, forward, relevance and activation hooks)
\* is left on any layer of the working model.
C1_HooksReleasedOnReturn ==
  \A e \in Engines :
    Returned(e) => \A p \in DOMAIN heap[modelRef[e]] : OwnHooks(e, p) = {}

\* A call that registered forward and backward hooks, among them relevance
\* hooks, has returned.
C1_Witness ==
  /\ Returned(Solo)
  /\ return_for_all_layers[Solo]
  /\ Len(forward_handles[Solo]) >= 2
  /\ \E j \in DOMAIN backward_handles[Solo] :
       backward_handles[Solo][j].hook.kind = "backward_hook_activation"
  /\ \E j \in DOMAIN backward_handles[Solo] :
       backward_handles[Solo][j].hook.kind = "_backward_hook_relevance"

\* C2: when attribute raises after a hook was installed, all hooks of the
\* call are removed and the inputs track gradients as before the call.
C2_CleanupOnRaise ==
  \A e \in Engines :
    (RaisedInCall(e) /\ InstalledHooks(e)) =>
      /\ \A p \in DOMAIN heap[modelRef[e]] : OwnHooks(e, p) = {}
      /\ inputs[e].requires_grad = inputs[e].before

\* C3: the caller's model is never touched: no hook, no `relevance`
\* attribute, the weights as they were.
C3_OriginalUntouched == heap[Original] = FreshObject(model)

\* A second call is under way on the copy of a copy: hooks are registered,
\* weights are manipulated and a relevance is left from the first call.
C3_Witness ==
  /\ calls[Solo] = 2
  /\ pc[Solo] = "hooks_active"
  /\ \E p \in DOMAIN heap[Solo] :
       /\ heap[Solo][p].hooks # {}
       /\ heap[Solo][p].weights = "manipulated"
       /\ heap[Solo][p].relevance = "stale"

\* No object the engine could work on carries a hook.
NoHookAnywhere == \A o \in Objects : \A p \in DOMAIN heap[o] : heap[o][p].hooks = {}

\* The module at path p has no children.
Childless(tree, p) == NodeAt(tree, p).children = <<>>

\* The tree holds a Sigmoid or Tanh module without children, the root counted.
HasForbiddenLeaf(tree) ==
  \E p \in AllPaths(tree) :
    Childless(tree, p) /\ IsForbiddenActivation(KindAt(tree, p))

\* C4: a model with a Sigmoid or Tanh leaf at any depth, the root included,
\* is rejected with a TypeError before any hook and any pass.
C4_ForbiddenActivationRejected ==
  \A e \in Engines :
    (HasForbiddenLeaf(model) /\ pc[e] # "new") =>
      /\ pc[e] = "failed"
      /\ outcome[e].error = "TypeError"
      /\ ~ran[e]
      /\ NoHookAnywhere

RECURSIVE PathBefore(_, _)
\* Path p comes before path q from left to right, depth first.
PathBefore(p, q) ==
  IF p = <<>> \/ q = <<>> THEN FALSE
  ELSE IF Head(p) # Head(q) THEN Head(p) < Head(q)
  ELSE PathBefore(Tail(p), Tail(q))

\* ls lists exactly the childless modules of the tree, each once, depth
\* first from left to right.
IsChildlessInOrder(ls, tree) ==
  /\ {ls[i] : i \in DOMAIN ls} = {p \in AllPaths(tree) : Childless(tree, p)}
  /\ \A i, j \in DOMAIN ls : i < j => PathBefore(ls[i], ls[j])

\* C5: the layer sequence the traversal builds is exactly the childless
\* nodes of the module tree in depth-first, left-to-right order.
C5_LayersAreChildlessNodes ==
  \A e \in Engines :
    pc[e] \notin {"new", "failed"} => IsChildlessInOrder(layers[e], model)

\* _register_forward_hooks has run in the running or last call of engine e:
\* to its end, or until it raised.
MainPassRegistered(e) ==
  \/ pc[e] = "hooks_active"
  \/ RaisedInCall(e) /\ outcome[e].error = "UnboundLocalError"

OwnHooksOfKind(e, p, kinds) == {h \in OwnHooks(e, p) : h.kind \in kinds}

BackwardKinds == {"_backward_hook_relevance", "backward_hook_activation"}

\* C6: in the main pass the hooks of a layer follow from its kind: Conv2d and
\* Linear carry the forward hook of an Alpha1_Beta0 rule, the pooling and
\* normalisation layers that of an Epsilon rule, a ReLU exactly one backward
\* pass-through hook and no forward hook.
C6_HooksFollowRegistry ==
  \A e \in Engines :
    MainPassRegistered(e) =>
      \A i \in DOMAIN layers[e] :
        LET p == layers[e][i]
            k == KindAt(model, p)
            fwd == OwnHooksOfKind(e, p, {"forward_hook"})
        IN /\ k \in {"Conv2d", "Linear"} =>
                /\ Cardinality(fwd) = 1
                /\ \A h \in fwd : h.rule.cls = "Alpha1_Beta0_Rule"
           /\ k \in {"MaxPool2d", "AvgPool2d", "AdaptiveAvgPool2d", "BatchNorm2d"} =>
                /\ Cardinality(fwd) = 1
                /\ \A h \in fwd : h.rule.cls = "EpsilonRule"
           /\ k = "ReLU" =>
                /\ fwd = {}
                /\ Cardinality(OwnHooksOfKind(e, p, BackwardKinds)) = 1
                /\ \A h \in OwnHooksOfKind(e, p, BackwardKinds) :
                     h.kind = "backward_hook_activation"

\* C7: the rule whose hooks sit on the i-th layer is the i-th element of
\* `rules`; for a None element the layer carries no redistribution hook.
C7_RulesAreApplied ==
  \A e \in Engines :
    pc[e] = "hooks_active" =>
      \A i \in DOMAIN layers[e] \cap DOMAIN rules[e] :
        LET red == OwnHooksOfKind(e, layers[e][i],
                                  {"forward_hook", "_backward_hook_relevance",
                                   "forward_pre_hook_activations"})
        IN IF rules[e][i] = "None"
           THEN red = {}
           ELSE \A h \in red : h.rule = RuleInstance(rules[e][i], "user", i)

\* The model is a container whose leaves are all supported linear, pooling,
\* normalisation or ReLU layers.
OnlySupportedLayers(tree) ==
  /\ tree.children # <<>>
  /\ \A p \in AllPaths(tree) :
       Childless(tree, p) =>
         KindAt(tree, p) \in DOMAIN SUPPORTED_LINEAR_LAYERS \cup SUPPORTED_NON_LINEAR_LAYERS

\* C8: on a model of supported layers and ReLUs in any order the
\* registration of the hooks does not raise (a call of the model that does
\* not bind, a product of shapes that do not broadcast and the
\* differentiation runtime may), and the input-level attributions have one
\* entry per input.
C8_SupportedModelsAttribute ==
  \A e \in Engines :
    OnlySupportedLayers(model) =>
      /\ RaisedInCall(e) => outcome[e].error # "UnboundLocalError"
      /\ (Returned(e) /\ ~return_for_all_layers[e]) =>
           /\ ~outcome[e].value.wrapped
           /\ Len(outcome[e].value.items) = Len(inputs[e].requires_grad)
           /\ \A j \in DOMAIN outcome[e].value.items :
                outcome[e].value.items[j] = [src |-> "input", idx |-> j, age |-> "fresh"]

\* The layer kind is in neither SUPPORTED_LINEAR_LAYERS nor
\* SUPPORTED_NON_LINEAR_LAYERS.
Unsupported(kind) ==
  kind \notin DOMAIN SUPPORTED_LINEAR_LAYERS /\ kind \notin SUPPORTED_NON_LINEAR_LAYERS

UnsupportedLayer(p) == Unsupported(KindAt(model, p))
SupportedLayer(p) == ~UnsupportedLayer(p)

\* Some activation layer of ls comes before every layer that binds a rule:
\* the one case in which _register_forward_hooks raises.
ActivationBeforeRule(ls) ==
  \E i \in DOMAIN ls :
    /\ KindAt(model, ls[i]) \in SUPPORTED_NON_LINEAR_LAYERS
    /\ \A j \in 1..(i - 1) : KindAt(model, ls[j]) \notin DOMAIN SUPPORTED_LINEAR_LAYERS

\* The steps of a call after _register_forward_hooks has run to its end.
AfterRegistration ==
  {"hooks_active", "gradients", "backward_removed", "forward_removed",
   "undone", "selected"}

\* C9: a layer of unsupported kind never carries a hook, in any pass and on
\* any object; the main pass prints one warning for each such layer; and
\* when the registration raises, it would raise as well with the
\* unsupported layers taken out of the model.
C9_UnsupportedLayerIsSkipped ==
  /\ \A o \in Objects : \A p \in DOMAIN heap[o] :
       UnsupportedLayer(p) => heap[o][p].hooks = {}
  /\ \A e \in Engines :
       /\ (pc[e] \in AfterRegistration \/ Returned(e)) =>
            warned[e] = SelectSeq(layers[e], UnsupportedLayer)
       /\ (RaisedInCall(e) /\ outcome[e].error = "UnboundLocalError") =>
            ActivationBeforeRule(SelectSeq(layers[e], SupportedLayer))

\* A call on a model with an unsupported layer next to a supported one has
\* printed its warning and returned.
C9_Witness ==
  /\ Returned(Solo)
  /\ warned[Solo] # <<>>
  /\ forward_handles[Solo] # <<>>
  /\ \E i \in DOMAIN layers[Solo] : KindAt(model, layers[Solo][i]) = "Dropout"

\* `rules` holds an object that is neither a PropagationRule nor None.
HasInvalidRule(rs) ==
  \E i \in DOMAIN rs : rs[i] \notin {"Alpha1_Beta0_Rule", "EpsilonRule", "None"}

\* C10: an engine given a rule that is neither a PropagationRule nor None
\* ends in a TypeError: no engine exists, no hook was installed, no pass was
\* run, no result was produced.
C10_InvalidRuleRejected ==
  \A e \in Engines :
    (pc[e] # "new" /\ HasInvalidRule(rules[e])) =>
      /\ pc[e] = "failed"
      /\ outcome[e] = Raised("TypeError")
      /\ ~ran[e]
      /\ calls[e] = 0
      /\ forward_handles[e] = <<>> /\ backward_handles[e] = <<>>
      /\ NoHookAnywhere

\* The constructor has rejected a list whose second element is no rule,
\* after a first element that is one.
C10_Witness ==
  /\ pc[Solo] = "failed"
  /\ rules[Solo] = <<"EpsilonRule", "str">>
  /\ outcome[Solo] = Raised("TypeError")

\* ------------------------------------------------------------ C11 .. C20
\* The value mirrors the inputs: a tensor for a single input, a tuple of as
\* many tensors as there are inputs for a tuple.
Mirrors(v, ins) ==
  IF ins.is_tuple
  THEN /\ v.form = "tuple"
       /\ Len(v.items) = Len(ins.requires_grad)
       /\ \A j \in DOMAIN v.items : v.items[j].form = "tensor"
  ELSE v.form = "tensor"

\* C11 as stated: whatever the flags, the attributions attribute returns
\* mirror the inputs: one tensor for a single input, a tuple of exactly k
\* tensors for a tuple of k inputs.
C11_MirrorsInputsAlways ==
  \A e \in Engines :
    Returned(e) => Mirrors(outcome[e].attributions, inputs[e])

\* C11: with return_for_all_layers=False the attributions attribute returns
\* mirror the inputs: one tensor for a single input, a tuple of exactly k
\* tensors for a tuple of k inputs.
C11_MirrorsInputs ==
  \A e \in Engines :
    (Returned(e) /\ ~return_for_all_layers[e]) =>
      Mirrors(outcome[e].attributions, inputs[e])

\* A call on a tuple of two inputs has returned a tuple of two tensors, and
\* the model has layers to choose from.
C11_Witness ==
  /\ Returned(Solo)
  /\ ~return_for_all_layers[Solo]
  /\ inputs[Solo].is_tuple
  /\ layers[Solo] # <<>>
  /\ outcome[Solo].attributions.form = "tuple"
  /\ Len(outcome[Solo].attributions.items) = 2

\* C12: with return_for_all_layers=True the returned sequence (the returned
\* object, or the list it holds) has one entry per traversed layer plus
\* one, for single and for tuple inputs.
C12_OnePerLayerPlusOne ==
  \A e \in Engines :
    (Returned(e) /\ return_for_all_layers[e]) =>
      LET v == outcome[e].attributions
      IN \/ Len(v.items) = Len(layers[e]) + 1
         \/ /\ v.form = "tuple"
            /\ Len(v.items[1].items) = Len(layers[e]) + 1


\* How many elements the delta tensor has: a 0-dim scalar has one.
ElementsOf(d) == IF d.shape = "scalar" THEN "one" ELSE "many"

\* C13: the delta returned with return_convergence_delta=True has one
\* element per example of the batch, and each element subtracts the sum of
\* all the returned relevance of its example from the forward output of
\* that example.
C13_DeltaPerExample ==
  \A e \in Engines :
    (Returned(e) /\ outcome[e].with_delta) =>
      /\ ElementsOf(outcome[e].delta) = inputs[e].batch
      /\ outcome[e].delta.relevances_summed = DOMAIN outcome[e].value.items

\* C14: whatever return_for_all_layers and the input structure, the return
\* statement of attribute hands back the pair (attributions, delta) when
\* return_convergence_delta is set, the attributions alone otherwise, and
\* the attributions are the same in both cases.
C14_DeltaOnlyAddsDelta ==
  [][\A e \in Engines :
       (pc[e] = "selected" /\ pc'[e] = "idle") =>
         /\ outcome'[e].status = "returned"
         /\ outcome'[e].with_delta = call[e].return_convergence_delta
         /\ outcome'[e].attributions =
              FormatAttributions(call[e].is_inputs_tuple,
                                 RelevancesTuple(call[e].relevances))]_vars


\* C15: a LayerLRP built for a model and one of its layers exists after its
\* construction and is ready for attribute, which returns the relevance of
\* that layer.
C15_LayerLRPConstructs ==
  \A e \in Engines :
    (layer[e].set /\ pc[e] # "new") =>
      /\ pc[e] # "failed"
      /\ outcome[e].status # "raised"


\* What the passes of an engine's first attribute call on the model run
\* through: the views a freshly constructed engine gets.
FirstCallViews(tree, rfal) ==
  LET ls == GetLayers(tree).layers
      copy == DeepCopy(FreshObject(tree))
      w == RegisterWeightHooksOn(tree, ls, copy, <<>>)
      changed == RemoveHandles(ForwardPass(w.obj), w.forward_handles)
      pre == RegisterPreHooksOn(tree, ls, changed, w.forward_handles)
      main == RegisterForwardHooksOn(tree, ls, rfal, pre.obj,
                                     pre.forward_handles, <<>>, <<>>)
  IN [output_view |-> PassView(copy), gradient_view |-> PassView(main.obj)]

\* C16: the attributions an engine returns are those a freshly constructed
\* engine over the same original model returns for the same arguments,
\* however many calls the engine has served before: the forward pass and the
\* gradient pass run through the same hooks and weights.
C16_SameAsFreshEngine ==
  \A e \in Engines :
    Returned(e) =>
      LET first == FirstCallViews(model, return_for_all_layers[e])
      IN /\ outcome[e].output_view = first.output_view
         /\ outcome[e].gradient_view = first.gradient_view

\* C17: when a call is about to install its hooks, the working model
\* carries no hook and no `relevance` attribute of an earlier call of the
\* engine, failed calls included.
C17_CleanWorkingModel ==
  \A e \in Engines :
    pc[e] = "prepared" =>
      \A p \in DOMAIN heap[modelRef[e]] :
        /\ heap[modelRef[e]][p].hooks = {}
        /\ heap[modelRef[e]][p].relevance = "none"

\* A rule the engine selects manipulates weights: the rule the registry
\* gives one of the layers, or an element of `rules`.
SelectsManipulatingRule(e) ==
  \/ \E i \in DOMAIN layers[e] :
       LET k == KindAt(model, layers[e][i])
       IN /\ k \in DOMAIN SUPPORTED_LINEAR_LAYERS
          /\ IsManipulateModules(SUPPORTED_LINEAR_LAYERS[k])
  \/ \E i \in DOMAIN rules[e] : IsManipulateModules(rules[e][i])

\* The steps of the extra weight-adjustment pass.
ExtraPassSteps == {"weight_hooks", "weight_forward", "weight_hooks_removed"}

\* C18: the extra weight-adjustment pass (weight hooks, extra forward pass,
\* pre-forward hooks) runs only when a selected rule manipulates weights;
\* otherwise the call goes from the set-up straight to the main forward
\* hooks.
C18_ExtraPassOnlyForManipulation ==
  \A e \in Engines :
    /\ pc[e] \in ExtraPassSteps => SelectsManipulatingRule(e)
    /\ (pc[e] = "weights_done" /\ SelectsManipulatingRule(e)) =>
         \E j \in DOMAIN forward_handles[e] :
           forward_handles[e][j].hook.kind = "forward_hook_weights"


\* Every handle the running call has registered, removed or not.
RegisteredHandles(e) ==
  {forward_handles[e][j] : j \in DOMAIN forward_handles[e]}
    \cup {backward_handles[e][j] : j \in DOMAIN backward_handles[e]}

\* The hooks of a rule-bearing layer.
RuleHookKinds ==
  {"forward_hook_weights", "forward_pre_hook_activations", "forward_hook",
   "_backward_hook_relevance"}

\* C19: when the main pass is set up, the weight hook, the pre-forward hook,
\* the forward hook and the relevance hook the call registered on a layer
\* are bound to one Rule instance, and no Rule instance has hooks on two
\* layers.
C19_OneRuleInstancePerLayer ==
  \A e \in Engines :
    pc[e] = "hooks_active" =>
      \A a, b \in RegisteredHandles(e) :
        /\ (a.layer = b.layer /\ a.hook.kind \in RuleHookKinds
                              /\ b.hook.kind \in RuleHookKinds) =>
             a.hook.rule = b.hook.rule
        /\ a.hook.rule = b.hook.rule => a.layer = b.layer

\* The main pass is set up: every layer the registry knows carries the hook
\* of its kind.
MainHooksInstalled(e) ==
  \A i \in DOMAIN layers[e] :
    LET p == layers[e][i]
        k == KindAt(model, p)
    IN /\ k \in DOMAIN SUPPORTED_LINEAR_LAYERS =>
            /\ OwnHooksOfKind(e, p, {"forward_hook"}) # {}
            /\ return_for_all_layers[e] =>
                 OwnHooksOfKind(e, p, {"_backward_hook_relevance"}) # {}
       /\ k \in SUPPORTED_NON_LINEAR_LAYERS =>
            OwnHooksOfKind(e, p, {"backward_hook_activation"}) # {}

\* C20: the passes of a call are ordered.  While the call runs, its weight
\* hooks are on the layers only around the extra forward pass (a call that
\* raised in that pass has ended with them), and none of them is left when
\* a pre-forward, forward or backward hook of the call is on a layer; the
\* gradients are computed with every main-pass hook installed; the
\* selection and the return find none of the call's hooks on any layer.
C20_PassesOrdered ==
  \A e \in Engines :
    LET ps == DOMAIN heap[modelRef[e]]
        weight == UNION {OwnHooksOfKind(e, p, {"forward_hook_weights"}) : p \in ps}
        own == UNION {OwnHooks(e, p) : p \in ps}
    IN /\ weight # {} =>
            \/ pc[e] \in {"weight_hooks", "weight_forward"}
            \/ RaisedInCall(e) /\ own = weight
       /\ own \ weight # {} => weight = {}
       /\ pc[e] \in {"hooks_active", "gradients"} => MainHooksInstalled(e)
       /\ (pc[e] = "selected" \/ Returned(e)) => own = {}

\* A call that went through the extra pass and the main pass has selected
\* its relevances: it had registered weight, pre-forward, forward and
\* backward hooks.
C20_Witness ==
  /\ pc[Solo] = "selected"
  /\ \A k \in {"forward_hook_weights", "forward_pre_hook_activations",
                "forward_hook", "backward_hook_activation"} :
       \E h \in RegisteredHandles(Solo) : h.hook.kind = k


\* ------------------------------------------------------------ C21 .. C25
\* C21: when attribute has returned, no Rule instance that had a hook on a
\* layer during the call still holds a handle of its own
\* (_handle_input_hook, _handle_output_hook, _handle_layer_hook).
C21_RuleHandlesReleased ==
  \A e \in Engines : Returned(e) => rule_handles[e] = {}


\* C22: when attribute has returned normally, every input tensor tracks
\* gradients exactly if it did before the call.
C22_GradientFlagsRestored ==
  \A e \in Engines :
    Returned(e) => inputs[e].requires_grad = inputs[e].before

\* A call on a tuple with an input that did not track gradients has
\* returned: the flag was set for the passes and is cleared again.
C22_Witness ==
  /\ Returned(Solo)
  /\ ran[Solo]
  /\ \E j \in DOMAIN inputs[Solo].before :
       /\ ~inputs[Solo].before[j]
       /\ ~inputs[Solo].requires_grad[j]
  /\ \E j \in DOMAIN inputs[Solo].before : inputs[Solo].before[j]


\* The layers of engine e that carry a recorded relevance.
Recorded(e) ==
  {j \in DOMAIN layers[e] : heap[modelRef[e]][layers[e][j]].relevance # "none"}

\* The entry of the list for the i-th layer: the input relevances come first.
EntryOf(e, items, i) == items[Len(inputs[e].requires_grad) + i]

\* The relevance recorded on the j-th layer, as an entry of the list.
RecordedEntry(e, j) ==
  [src |-> "layer", idx |-> j, age |-> heap[modelRef[e]][layers[e][j]].relevance]

\* C23 as stated: the entry of a layer without a recorded relevance is the
\* relevance recorded on the nearest layer toward the model output that has
\* one.
C23_FallbackTowardOutput ==
  \A e \in Engines :
    (pc[e] = "selected" /\ return_for_all_layers[e]) =>
      \A i \in DOMAIN layers[e] \ Recorded(e) :
        LET above == {j \in Recorded(e) : j > i}
        IN above # {} =>
             \E j \in above :
               /\ \A m \in above : j <= m
               /\ EntryOf(e, call[e].relevances.items, i) = RecordedEntry(e, j)

\* C23: the entry of a layer without a recorded relevance is the relevance
\* recorded on the nearest layer toward the model input that has one, and
\* the relevance of the last input when no layer before it has one.
C23_FallbackTowardInput ==
  \A e \in Engines :
    (pc[e] = "selected" /\ return_for_all_layers[e]) =>
      \A i \in DOMAIN layers[e] \ Recorded(e) :
        LET below == {j \in Recorded(e) : j < i}
            k == Len(inputs[e].requires_grad)
        IN IF below = {}
           THEN EntryOf(e, call[e].relevances.items, i) =
                  [src |-> "input", idx |-> k, age |-> "fresh"]
           ELSE \E j \in below :
                  /\ \A m \in below : m <= j
                  /\ EntryOf(e, call[e].relevances.items, i) = RecordedEntry(e, j)

\* The list is selected for a model whose second layer has no relevance of
\* its own and follows a layer that has one.
C23_Witness ==
  /\ pc[Solo] = "selected"
  /\ return_for_all_layers[Solo]
  /\ 1 \in Recorded(Solo)
  /\ 2 \in DOMAIN layers[Solo] \ Recorded(Solo)
  /\ EntryOf(Solo, call[Solo].relevances.items, 2) = RecordedEntry(Solo, 1)


\* C24: an engine built as a LayerLRP serves attribute calls, and while the
\* gradient pass of such a call is set up, the designated layer of the
\* working model carries a relevance hook of the call, whatever
\* return_for_all_layers says.
C24_DesignatedLayerHooked ==
  \A e \in Engines :
    (layer[e].set /\ pc[e] # "new") =>
      /\ pc[e] # "failed"
      /\ pc[e] \in {"hooks_active", "gradients"} =>
           OwnHooksOfKind(e, layer[e].path, {"_backward_hook_relevance"}) # {}


\* The other engine.
Other(e) == CHOOSE o \in Engines : o # e

\* Everything engine e owns or works on: its attributes, the locals of its
\* call, the tensors it was given, its result and the objects it may touch.
Local(e) ==
  <<pc[e], modelRef[e], heap[e], heap[modelRef[e]], layers[e], rules[e],
    changes_weights[e], return_for_all_layers[e], forward_handles[e],
    backward_handles[e], call[e], inputRef[e], Given(e), outcome[e],
    warned[e], calls[e], rule_handles[e], ran[e]>>

\* The steps of a call between apply_gradient_requirements and
\* undo_gradient_requirements.
GradientsRequired ==
  {"prepared", "weight_hooks", "weight_forward", "weight_hooks_removed",
   "weights_done", "hooks_active", "gradients", "backward_removed",
   "forward_removed"}

\* C25: the calls of two engines over the same original model do not
\* interfere, however their steps interleave and whatever tensors the
\* caller gives them.  A step of one engine leaves everything of the other
\* engine as it is, its working model, the hooks on it and the tensors it
\* was given included; the working model of a call is the engine's own
\* copy; the gradient requirements a call has applied are in force until it
\* undoes them, as they are when the engine runs alone; a call that
\* returns has none of its hooks left and went through the hooks and
\* weights it goes through when the engine runs alone.
C25_NoInterference ==
  /\ [](\A e \in Engines :
         /\ pc[e] \notin {"new", "failed", "idle"} => modelRef[e] = e
         /\ pc[e] \in GradientsRequired =>
              \A j \in DOMAIN Given(e).requires_grad : Given(e).requires_grad[j]
         /\ Returned(e) =>
              /\ \A p \in DOMAIN heap[modelRef[e]] : OwnHooks(e, p) = {}
              /\ outcome[e].output_view =
                   FirstCallViews(model, return_for_all_layers[e]).output_view
              /\ outcome[e].gradient_view =
                   FirstCallViews(model, return_for_all_layers[e]).gradient_view)
  /\ [][\A e \in Engines :
         pc'[Other(e)] # pc[Other(e)] => Local(e)' = Local(e)]_vars

====
